---- MODULE Spec2Model ----
(***************************************************************************)
(* Model of the scoring, aggregation and ranking core of Challenge_1b      *)
(* (core/ranking_engine.py) together with the part of process_collection   *)
(* (main.py) that collects the per-document workers' results and calls it. *)
(*                                                                         *)
(* Numbers.  Similarity scores are floats in the program.  The model holds *)
(* them as integers in fixed point: one unit is 1/ScoreResolution of 1e-4, *)
(* so that round(x, 4) is a real rounding.  A mean is held as the exact    *)
(* fraction <<sum, count>> and compared by cross-multiplication.           *)
(*                                                                         *)
(* Objects.  A Section object is owned by one Document; a reference to it  *)
(* is the pair <<d, s>>: position d in all_documents, position s in that   *)
(* document's sections.  ranked_sections holds such references, as the     *)
(* Python list holds references to the very objects of all_documents.      *)
(***************************************************************************)
EXTENDS Integers, Sequences, FiniteSets, TLC

\* ---------------------------------------------------------------- bounds
MaxDocs == 2            \* PDFs submitted to the executor
MaxSections == 3        \* sections over all documents of a run
MaxChunks == 3          \* chunks over all documents of a run
ScoreResolution == 3    \* score units per 1e-4

\* Embedding vectors: two opposite 1-dimensional ones and a 2-dimensional one.
Vecs == {<<-1>>, <<1>>, <<1, 1>>}
\* Values of the constructor arguments of RankingEngine.
TopKChoices == {1, 2}
TopNChoices == {0, 1, 2}

\* ------------------------------------------------------- Optional[...]
None == <<>>
Some(v) == <<v>>
IsNone(o) == Len(o) = 0
Val(o) == o[1]

\* ------------------------------------------------------------ numbers
\* A float held as the fraction <<num, den>>, den > 0.
Frac(n) == <<n, 1>>
Zero == Frac(0)
FLess(a, b) == a[1] * b[2] < b[1] * a[2]
FEq(a, b) == a[1] * b[2] = b[1] * a[2]
FPositive(a) == a[1] > 0

RECURSIVE Sum(_)
Sum(xs) == IF Len(xs) = 0 THEN 0 ELSE Head(xs) + Sum(Tail(xs))

MinOf(a, b) == IF a < b THEN a ELSE b

Front(xs) == SubSeq(xs, 1, Len(xs) - 1)
Last(xs) == xs[Len(xs)]

\* xs[:n] for n >= 0
Take(xs, n) == SubSeq(xs, 1, MinOf(n, Len(xs)))

\* np.dot of two 1-D vectors of equal length
RECURSIVE Dot(_, _)
Dot(a, b) == IF Len(a) = 0 THEN 0 ELSE Head(a) * Head(b) + Dot(Tail(a), Tail(b))

\* np.dot raises ValueError (shapes not aligned) for 1-D vectors of different length
DimensionMismatch(a, b) == Len(a) # Len(b)

\* round(x, 4): to the nearest multiple of 1e-4, a tie to the even multiple
Round4(x) ==
    LET u == ScoreResolution
        q == x \div u
        r == x % u
    IN  IF 2 * r < u THEN q * u
        ELSE IF 2 * r > u THEN (q + 1) * u
        ELSE IF q % 2 = 0 THEN q * u ELSE (q + 1) * u

\* --------------------------------------------------------------- sorted
\* A sort that puts an item before the items of equal key
InsertReverseUnstable(sorted, x) ==
    LET lower == {i \in 1..Len(sorted) : ~FLess(x.key, sorted[i].key)}
        at == IF lower = {} THEN Len(sorted) + 1
              ELSE CHOOSE i \in lower : \A j \in lower : i <= j
    IN  SubSeq(sorted, 1, at - 1) \o <<x>> \o SubSeq(sorted, at, Len(sorted))

\* sorted(items, key=..., reverse=True) over items [key |-> fraction, val |-> x]:
\* descending by key, items of equal key in their original order.
InsertReverse(sorted, x) ==
    LET lower == {i \in 1..Len(sorted) : FLess(sorted[i].key, x.key)}
        at == IF lower = {} THEN Len(sorted) + 1
              ELSE CHOOSE i \in lower : \A j \in lower : i <= j
    IN  SubSeq(sorted, 1, at - 1) \o <<x>> \o SubSeq(sorted, at, Len(sorted))

RECURSIVE SortedReverse(_)
SortedReverse(items) ==
    IF Len(items) = 0 THEN <<>>
    ELSE InsertReverse(SortedReverse(Front(items)), Last(items))

\* ----------------------------------------------------------- the state
VARIABLES
    pdf_paths,               \* what process_single_pdf yields for each submitted PDF
    top_k_chunks,            \* RankingEngine.top_k_chunks
    top_n_sections_for_analysis,
    query_embedding,
    pending,                 \* futures not yet yielded by as_completed
    all_documents,           \* list of Document
    ranked_sections,         \* the list rank_sections_globally returned (references)
    sub_section_analysis,    \* the list perform_sub_section_analysis returned
    final_output,            \* what output_builder.build returned
    rank_calls,              \* calls of rank_sections_globally made so far
    pc                       \* position in process_collection

vars == <<pdf_paths, top_k_chunks, top_n_sections_for_analysis, query_embedding,
          pending, all_documents, ranked_sections, sub_section_analysis,
          final_output, rank_calls, pc>>

\* ------------------------------------------------------ data_structures
Chunk(text, embedding) ==
    [text |-> text, embedding |-> embedding, similarity_score |-> None]

Section(title, page_number, source_doc_name, chunks) ==
    [title |-> title, page_number |-> page_number,
     source_doc_name |-> source_doc_name, chunks |-> chunks,
     aggregated_score |-> None, rank |-> None]

Document(filename, sections) ==
    [filename |-> filename, sections |-> sections]

\* process_single_pdf: the Document parsed and embedded from PDF w, whose
\* sections carry the chunk embeddings secs[s][c].
ProcessSinglePdf(w, secs) ==
    Document(w, [s \in 1..Len(secs) |->
        Section(s, (w - 1) * MaxSections + s, w,
                [c \in 1..Len(secs[s]) |-> Chunk(c, secs[s][c])])])

\* ------------------------------------------------------- RankingEngine
SectionAt(docs, ref) == docs[ref[1]].sections[ref[2]]

\* _get_all_sections: [section for doc in all_docs for section in doc.sections]
RECURSIVE GetAllSections(_)
GetAllSections(docs) ==
    IF Len(docs) = 0 THEN <<>>
    ELSE GetAllSections(Front(docs)) \o
         [s \in 1..Len(Last(docs).sections) |-> <<Len(docs), s>>]

\* The chunks of the sections of a list, in the order the two loops of
\* _score_all_chunks visit them, as references <<d, s, c>>.
RECURSIVE ChunkRefs(_, _)
ChunkRefs(docs, sections) ==
    IF Len(sections) = 0 THEN <<>>
    ELSE ChunkRefs(docs, Front(sections)) \o
         [c \in 1..Len(SectionAt(docs, Last(sections)).chunks) |->
             <<Last(sections)[1], Last(sections)[2], c>>]

\* A scorer that scores a chunk of another dimensionality 0 and goes on
ScoreChunkZeroOnMismatch(st, cref, q) ==
    LET ch == st.docs[cref[1]].sections[cref[2]].chunks[cref[3]]
    IN  [st EXCEPT
            !.docs[cref[1]].sections[cref[2]].chunks[cref[3]].similarity_score =
                IF DimensionMismatch(ch.embedding, q) THEN Some(0)
                ELSE Some(Dot(ch.embedding, q))]

\* A scorer that keeps the score a chunk already carries
ScoreChunkKeepsOld(st, cref, q) ==
    LET ch == st.docs[cref[1]].sections[cref[2]].chunks[cref[3]]
    IN  IF st.raised THEN st
        ELSE IF DimensionMismatch(ch.embedding, q) THEN [st EXCEPT !.raised = TRUE]
        ELSE IF ~IsNone(ch.similarity_score) THEN st
        ELSE [st EXCEPT
                !.docs[cref[1]].sections[cref[2]].chunks[cref[3]].similarity_score =
                    Some(Dot(ch.embedding, q))]

\* A scorer that clears the score of the chunk it fails on
ScoreChunkClearsOnRaise(st, cref, q) ==
    LET ch == st.docs[cref[1]].sections[cref[2]].chunks[cref[3]]
    IN  IF st.raised THEN st
        ELSE IF DimensionMismatch(ch.embedding, q)
        THEN [st EXCEPT
                !.raised = TRUE,
                !.docs[cref[1]].sections[cref[2]].chunks[cref[3]].similarity_score =
                    Some(0)]
        ELSE [st EXCEPT
                !.docs[cref[1]].sections[cref[2]].chunks[cref[3]].similarity_score =
                    Some(Dot(ch.embedding, q))]

\* The loop body of _score_all_chunks on one chunk: once np.dot has raised,
\* nothing more is written.
ScoreChunk(st, cref, q) ==
    LET ch == st.docs[cref[1]].sections[cref[2]].chunks[cref[3]]
    IN  IF st.raised THEN st
        ELSE IF DimensionMismatch(ch.embedding, q) THEN [st EXCEPT !.raised = TRUE]
        ELSE [st EXCEPT
                !.docs[cref[1]].sections[cref[2]].chunks[cref[3]].similarity_score =
                    Some(Dot(ch.embedding, q))]

RECURSIVE ScoreLoop(_, _, _)
ScoreLoop(st, crefs, q) ==
    IF Len(crefs) = 0 THEN st
    ELSE ScoreLoop(ScoreChunk(st, Head(crefs), q), Tail(crefs), q)

\* _score_all_chunks: [docs |-> the documents as it leaves them, raised |-> whether
\* it ended in np.dot's ValueError]
ScoreAllChunks(docs, sections, q) ==
    ScoreLoop([docs |-> docs, raised |-> FALSE], ChunkRefs(docs, sections), q)

\* An aggregation over all the chunk scores
TopKScoresAll(chunk_scores, k) ==
    LET items == [i \in 1..Len(chunk_scores) |->
                     [key |-> Frac(chunk_scores[i]), val |-> chunk_scores[i]]]
        sorted == SortedReverse(items)
    IN  [i \in 1..Len(chunk_scores) |-> sorted[i].val]

\* sorted(chunk_scores, reverse=True)[:num_chunks_to_consider]
TopKScores(chunk_scores, k) ==
    LET items == [i \in 1..Len(chunk_scores) |->
                     [key |-> Frac(chunk_scores[i]), val |-> chunk_scores[i]]]
        sorted == SortedReverse(items)
        num_chunks_to_consider == MinOf(k, Len(chunk_scores))
    IN  [i \in 1..num_chunks_to_consider |-> sorted[i].val]

\* An aggregation that scores a section without chunks below every cosine
AggregateScoreEmptyNegative(section, k) ==
    IF Len(section.chunks) = 0 THEN Frac(-1)
    ELSE LET chunk_scores == [i \in 1..Len(section.chunks) |->
                                 Val(section.chunks[i].similarity_score)]
             top_k_scores == TopKScores(chunk_scores, k)
         IN  <<Sum(top_k_scores), Len(top_k_scores)>>

\* The body of the loop of _aggregate_section_scores: the aggregated_score it
\* writes on one section.
AggregateScore(section, k) ==
    IF Len(section.chunks) = 0 THEN Zero
    ELSE LET chunk_scores == [i \in 1..Len(section.chunks) |->
                                 Val(section.chunks[i].similarity_score)]
             top_k_scores == TopKScores(chunk_scores, k)
         IN  IF Len(top_k_scores) > 0
             THEN <<Sum(top_k_scores), Len(top_k_scores)>>
             ELSE Zero

\* _aggregate_section_scores
RECURSIVE AggregateSectionScores(_, _, _)
AggregateSectionScores(docs, sections, k) ==
    IF Len(sections) = 0 THEN docs
    ELSE LET ref == Head(sections)
             done == [docs EXCEPT ![ref[1]].sections[ref[2]].aggregated_score =
                         Some(AggregateScore(SectionAt(docs, ref), k))]
         IN  AggregateSectionScores(done, Tail(sections), k)

\* A filter that drops the sections without chunks
RECURSIVE ScoredSectionsNonEmpty(_, _)
ScoredSectionsNonEmpty(docs, sections) ==
    IF Len(sections) = 0 THEN <<>>
    ELSE (IF Len(SectionAt(docs, Head(sections)).chunks) = 0
          THEN <<>> ELSE <<Head(sections)>>)
         \o ScoredSectionsNonEmpty(docs, Tail(sections))

\* [s for s in all_sections if s.aggregated_score is not None]
RECURSIVE ScoredSections(_, _)
ScoredSections(docs, sections) ==
    IF Len(sections) = 0 THEN <<>>
    ELSE (IF IsNone(SectionAt(docs, Head(sections)).aggregated_score)
          THEN <<>> ELSE <<Head(sections)>>)
         \o ScoredSections(docs, Tail(sections))

\* A sort without reverse=True
SortedSectionsAscending(docs, scored_sections) ==
    LET items == [i \in 1..Len(scored_sections) |->
                     [key |-> Val(SectionAt(docs, scored_sections[i]).aggregated_score),
                      val |-> scored_sections[i]]]
        sorted == SortedReverse(items)
    IN  [i \in 1..Len(sorted) |-> sorted[Len(sorted) + 1 - i].val]

\* sorted(scored_sections, key=lambda s: s.aggregated_score, reverse=True)
SortedSections(docs, scored_sections) ==
    LET items == [i \in 1..Len(scored_sections) |->
                     [key |-> Val(SectionAt(docs, scored_sections[i]).aggregated_score),
                      val |-> scored_sections[i]]]
        sorted == SortedReverse(items)
    IN  [i \in 1..Len(sorted) |-> sorted[i].val]

\* A 0-based rank
RankOfZeroBased(i) == i

\* for i, section in enumerate(sorted_sections): section.rank = i + 1
RankOf(i) == i + 1

RECURSIVE AssignRanks(_, _, _)
AssignRanks(docs, sorted_sections, i) ==
    IF i >= Len(sorted_sections) THEN docs
    ELSE LET ref == sorted_sections[i + 1]
         IN  AssignRanks([docs EXCEPT ![ref[1]].sections[ref[2]].rank = Some(RankOf(i))],
                         sorted_sections, i + 1)

\* rank_sections_globally when it returns: [docs |-> the documents as it leaves
\* them, sorted_sections |-> the list it returns]
RankSectionsGloballyResult(docs, q, k) ==
    LET all_sections == GetAllSections(docs)
        scored == ScoreAllChunks(docs, all_sections, q).docs
        aggregated == AggregateSectionScores(scored, all_sections, k)
        scored_sections == ScoredSections(aggregated, all_sections)
        sorted_sections == SortedSections(aggregated, scored_sections)
    IN  [docs |-> AssignRanks(aggregated, sorted_sections, 0),
         sorted_sections |-> sorted_sections]

\* A ranking that rejects an input without sections
RankSectionsGloballyRaisesOnEmpty(docs, q) ==
    \/ Len(GetAllSections(docs)) = 0
    \/ ScoreAllChunks(docs, GetAllSections(docs), q).raised

\* Whether rank_sections_globally ends in the ValueError of _score_all_chunks
RankSectionsGloballyRaisesOn(docs, q) ==
    ScoreAllChunks(docs, GetAllSections(docs), q).raised

\* A snippet taken from the first chunk
TopChunkUnsorted(section) == section.chunks[1]

\* sorted(section.chunks, key=lambda c: c.similarity_score, reverse=True)[0]
TopChunk(section) ==
    LET items == [i \in 1..Len(section.chunks) |->
                     [key |-> Frac(Val(section.chunks[i].similarity_score)), val |-> i]]
    IN  section.chunks[SortedReverse(items)[1].val]

\* The record perform_sub_section_analysis appends for one section
AnalysisRecord(section) ==
    LET top_chunk == TopChunk(section)
    IN  [source_document |-> section.source_doc_name,
         section_title |-> section.title,
         importance_rank |-> Val(section.rank),
         refined_text_snippet |-> top_chunk.text,
         snippet_relevance_score |-> Round4(Val(top_chunk.similarity_score))]

\* An analysis over the whole ranking
SectionsForAnalysisAll(ranked, n) == ranked

\* ranked_sections[:self.top_n_sections_for_analysis]
SectionsForAnalysis(ranked, n) == Take(ranked, n)

\* perform_sub_section_analysis
RECURSIVE AnalysisLoop(_, _)
AnalysisLoop(docs, sections_for_analysis) ==
    IF Len(sections_for_analysis) = 0 THEN <<>>
    ELSE LET section == SectionAt(docs, Head(sections_for_analysis))
         IN  (IF Len(section.chunks) = 0 THEN <<>> ELSE <<AnalysisRecord(section)>>)
             \o AnalysisLoop(docs, Tail(sections_for_analysis))

PerformSubSectionAnalysisResult(docs, ranked, n) ==
    AnalysisLoop(docs, SectionsForAnalysis(ranked, n))

\* -------------------------------------------------------- OutputBuilder
\* ranked_sections[:5]
ExtractedLimit == 5

\* A look-up at the rank itself
PageIndexNoOffset(importance_rank) == importance_rank

\* The 0-based index build looks the section of a record up at
PageIndex(importance_rank) == importance_rank - 1

\* Whether xs[i] of a Python list raises IndexError
IndexError(xs, i) == i >= Len(xs) \/ i < 0 - Len(xs)

\* xs[i] of a Python list: 0-based, a negative index counts from the end
ListIndex(xs, i) == IF i >= 0 THEN xs[i + 1] ELSE xs[Len(xs) + i + 1]

\* The entry of extracted_sections build makes of one section
ExtractedSection(section) ==
    [document |-> section.source_doc_name,
     section_title |-> section.title,
     importance_rank |-> Val(section.rank),
     page_number |-> section.page_number]

\* The entry of sub_section_analysis build makes of one analysis record; the
\* text of a chunk is an opaque token here, which the clean-up leaves as it is
FormattedAnalysis(docs, ranked, analysis) ==
    [document |-> analysis.source_document,
     refined_text |-> analysis.refined_text_snippet,
     page_number |->
         SectionAt(docs, ListIndex(ranked, PageIndex(analysis.importance_rank))).page_number]

\* Whether OutputBuilder.build ends in the IndexError of a look-up
BuildRaisesOn(ranked, analyses) ==
    \E k \in 1..Len(analyses) :
        IndexError(ranked, PageIndex(analyses[k].importance_rank))

\* OutputBuilder.build when it returns
BuildResult(docs, ranked, analyses) ==
    [extracted_sections |->
         [i \in 1..MinOf(ExtractedLimit, Len(ranked)) |->
             ExtractedSection(SectionAt(docs, ranked[i]))],
     sub_section_analysis |->
         [k \in 1..Len(analyses) |-> FormattedAnalysis(docs, ranked, analyses[k])]]

\* ------------------------------------------------------------- inputs
SeqsUpTo(S, n) == UNION {[1..k -> S] : k \in 0..n}

\* The section lists (each section the list of its chunks' embeddings) of at
\* most n sections and c chunks in all
RECURSIVE SectionLists(_, _)
SectionLists(n, c) ==
    IF n = 0 THEN {<<>>}
    ELSE {<<>>} \cup
         UNION {{<<x>> \o r : r \in SectionLists(n - 1, c - Len(x))} :
                    x \in SeqsUpTo(Vecs, c)}

RECURSIVE TotalChunks(_)
TotalChunks(secs) == IF Len(secs) = 0 THEN 0 ELSE Len(Head(secs)) + TotalChunks(Tail(secs))

\* What process_single_pdf does on one PDF: it returns a Document (ok) or raises
PdfOutcomes(n, c) ==
    {[ok |-> FALSE, secs |-> <<>>]} \cup {[ok |-> TRUE, secs |-> x] : x \in SectionLists(n, c)}

\* The outcomes of d PDFs holding at most n sections and c chunks in all
RECURSIVE PdfLists(_, _, _)
PdfLists(d, n, c) ==
    IF d = 0 THEN {<<>>}
    ELSE UNION {{<<x>> \o r :
                    r \in PdfLists(d - 1, n - Len(x.secs), c - TotalChunks(x.secs))} :
                    x \in PdfOutcomes(n, c)}

\* ---------------------------------------------------- process_collection
Init ==
    /\ \E d \in 1..MaxDocs : /\ pdf_paths \in PdfLists(d, MaxSections, MaxChunks)
                             /\ pending = 1..d
    /\ top_k_chunks \in TopKChoices
    /\ top_n_sections_for_analysis \in TopNChoices
    /\ query_embedding \in Vecs
    /\ all_documents = <<>>
    /\ ranked_sections = <<>>
    /\ sub_section_analysis = <<>>
    /\ final_output = None
    /\ rank_calls = 0
    /\ pc = "collect"

\* as_completed yields the future of PDF w, whose result is a Document
WorkerReturns(w) ==
    /\ pc = "collect"
    /\ w \in pending
    /\ pdf_paths[w].ok
    /\ all_documents' = Append(all_documents, ProcessSinglePdf(w, pdf_paths[w].secs))
    /\ pending' = pending \ {w}
    /\ UNCHANGED <<pdf_paths, top_k_chunks, top_n_sections_for_analysis,
                   query_embedding, ranked_sections, sub_section_analysis,
                   final_output, rank_calls, pc>>

\* as_completed yields the future of PDF w, whose result() raises
WorkerRaises(w) ==
    /\ pc = "collect"
    /\ w \in pending
    /\ ~pdf_paths[w].ok
    /\ pending' = pending \ {w}
    /\ UNCHANGED <<pdf_paths, top_k_chunks, top_n_sections_for_analysis,
                   query_embedding, all_documents, ranked_sections,
                   sub_section_analysis, final_output, rank_calls, pc>>

\* A ranking called inside the as_completed loop, before the workers have joined
RankSectionsGloballyEarly ==
    /\ pc = "collect"
    /\ ~RankSectionsGloballyRaisesOn(all_documents, query_embedding)
    /\ LET r == RankSectionsGloballyResult(all_documents, query_embedding, top_k_chunks)
       IN  /\ all_documents' = r.docs
           /\ ranked_sections' = r.sorted_sections
    /\ rank_calls' = rank_calls + 1
    /\ pc' = "ranked"
    /\ UNCHANGED <<pdf_paths, top_k_chunks, top_n_sections_for_analysis,
                   query_embedding, pending, sub_section_analysis, final_output>>

\* ranker.rank_sections_globally(all_documents, query_embedding) returns
RankSectionsGlobally ==
    /\ pc = "collect"
    /\ pending = {}
    /\ ~RankSectionsGloballyRaisesOn(all_documents, query_embedding)
    /\ LET r == RankSectionsGloballyResult(all_documents, query_embedding, top_k_chunks)
       IN  /\ all_documents' = r.docs
           /\ ranked_sections' = r.sorted_sections
    /\ rank_calls' = rank_calls + 1
    /\ pc' = "ranked"
    /\ UNCHANGED <<pdf_paths, top_k_chunks, top_n_sections_for_analysis,
                   query_embedding, pending, sub_section_analysis, final_output>>

\* ranker.rank_sections_globally(all_documents, query_embedding) raises
RankSectionsGloballyRaises ==
    /\ pc = "collect"
    /\ pending = {}
    /\ RankSectionsGloballyRaisesOn(all_documents, query_embedding)
    /\ all_documents' =
           ScoreAllChunks(all_documents, GetAllSections(all_documents), query_embedding).docs
    /\ rank_calls' = rank_calls + 1
    /\ pc' = "raised"
    /\ UNCHANGED <<pdf_paths, top_k_chunks, top_n_sections_for_analysis,
                   query_embedding, pending, ranked_sections, sub_section_analysis,
                   final_output>>

\* An analysis that sorts the chunks of the sections it looks at in place
\* (section.chunks.sort in the place of sorted)
PerformSubSectionAnalysisSortsInPlace ==
    /\ pc = "ranked"
    /\ sub_section_analysis' =
           PerformSubSectionAnalysisResult(all_documents, ranked_sections,
                                           top_n_sections_for_analysis)
    /\ all_documents' =
           LET looked == {SectionsForAnalysis(ranked_sections, top_n_sections_for_analysis)[i] :
                             i \in 1..Len(SectionsForAnalysis(ranked_sections,
                                                             top_n_sections_for_analysis))}
               SortedChunks(section) ==
                   LET items == [i \in 1..Len(section.chunks) |->
                                    [key |-> Frac(Val(section.chunks[i].similarity_score)),
                                     val |-> section.chunks[i]]]
                   IN  [i \in 1..Len(items) |-> SortedReverse(items)[i].val]
           IN  [d \in 1..Len(all_documents) |->
                   [all_documents[d] EXCEPT !.sections =
                       [x \in 1..Len(all_documents[d].sections) |->
                           IF <<d, x>> \in looked
                           THEN [all_documents[d].sections[x] EXCEPT
                                    !.chunks = SortedChunks(all_documents[d].sections[x])]
                           ELSE all_documents[d].sections[x]]]]
    /\ pc' = "analysed"
    /\ UNCHANGED <<pdf_paths, top_k_chunks, top_n_sections_for_analysis,
                   query_embedding, pending, ranked_sections, final_output, rank_calls>>

\* ranker.perform_sub_section_analysis(ranked_sections)
PerformSubSectionAnalysis ==
    /\ pc = "ranked"
    /\ sub_section_analysis' =
           PerformSubSectionAnalysisResult(all_documents, ranked_sections,
                                           top_n_sections_for_analysis)
    /\ pc' = "analysed"
    /\ UNCHANGED <<pdf_paths, top_k_chunks, top_n_sections_for_analysis,
                   query_embedding, pending, all_documents, ranked_sections,
                   final_output, rank_calls>>

\* output_builder.build(ranked_sections, sub_section_analysis): it returns the
\* FinalOutput, or a look-up of a record's section raises IndexError
Build ==
    /\ pc = "analysed"
    /\ IF BuildRaisesOn(ranked_sections, sub_section_analysis)
       THEN /\ final_output' = None
            /\ pc' = "build_raised"
       ELSE /\ final_output' =
                   Some(BuildResult(all_documents, ranked_sections, sub_section_analysis))
            /\ pc' = "built"
    /\ UNCHANGED <<pdf_paths, top_k_chunks, top_n_sections_for_analysis,
                   query_embedding, pending, all_documents, ranked_sections,
                   sub_section_analysis, rank_calls>>

Next ==
    \/ \E w \in 1..MaxDocs : WorkerReturns(w)
    \/ \E w \in 1..MaxDocs : WorkerRaises(w)
    \/ RankSectionsGlobally
    \/ RankSectionsGloballyRaises
    \/ PerformSubSectionAnalysis
    \/ Build

Spec == Init /\ [][Next]_vars

\* A caller of the engine that calls rank_sections_globally once more, on the
\* documents it has just ranked and with another query: the call returns
RankSectionsGloballyAgain(q) ==
    /\ pc = "ranked"
    /\ q # query_embedding
    /\ ~RankSectionsGloballyRaisesOn(all_documents, q)
    /\ LET r == RankSectionsGloballyResult(all_documents, q, top_k_chunks)
       IN  /\ all_documents' = r.docs
           /\ ranked_sections' = r.sorted_sections
    /\ query_embedding' = q
    /\ rank_calls' = rank_calls + 1
    /\ pc' = "reranked"
    /\ UNCHANGED <<pdf_paths, top_k_chunks, top_n_sections_for_analysis,
                   pending, sub_section_analysis, final_output>>

\* The second call raises
RankSectionsGloballyAgainRaises(q) ==
    /\ pc = "ranked"
    /\ q # query_embedding
    /\ RankSectionsGloballyRaisesOn(all_documents, q)
    /\ all_documents' = ScoreAllChunks(all_documents, GetAllSections(all_documents), q).docs
    /\ query_embedding' = q
    /\ rank_calls' = rank_calls + 1
    /\ pc' = "reraised"
    /\ UNCHANGED <<pdf_paths, top_k_chunks, top_n_sections_for_analysis,
                   pending, ranked_sections, sub_section_analysis, final_output>>

NextEngine ==
    \/ Next
    \/ \E q \in Vecs : RankSectionsGloballyAgain(q)
    \/ \E q \in Vecs : RankSectionsGloballyAgainRaises(q)

\* The engine called repeatedly
SpecEngine == Init /\ [][NextEngine]_vars

TypeOK ==
    pc \in {"collect", "ranked", "raised", "analysed", "built", "build_raised",
            "reranked", "reraised"}

\* ==================================================================
\* Properties
\* ==================================================================
\* rank_sections_globally has returned
Returned == pc \in {"ranked", "analysed"}
Flat == GetAllSections(all_documents)
NumRanked == Len(ranked_sections)
RankedSection(i) == SectionAt(all_documents, ranked_sections[i])
ScoreOf(ref) == Val(SectionAt(all_documents, ref).aggregated_score)
HasChunks(ref) == Len(SectionAt(all_documents, ref).chunks) > 0
Positions(seq, x) == {i \in 1..Len(seq) : seq[i] = x}
PosIn(seq, x) == CHOOSE i \in Positions(seq, x) : TRUE

\* C1: when rank_sections_globally returns N sections, the section at 0-based
\* position i carries rank i + 1, so the ranks are exactly 1..N, each used once.
C1_RanksArePositions ==
    Returned =>
        /\ \A i \in 1..NumRanked : RankedSection(i).rank = Some(i)
        /\ {Val(RankedSection(i).rank) : i \in 1..NumRanked} = 1..NumRanked
        /\ \A r \in 1..NumRanked :
               Cardinality({ref \in {ranked_sections[i] : i \in 1..NumRanked} :
                               SectionAt(all_documents, ref).rank = Some(r)}) = 1

\* C1 witness: three sections were ranked, in an order that is not the input order
C1_Witness ==
    /\ Returned
    /\ NumRanked = 3
    /\ ranked_sections # Flat

\* C2: of two sections with equal aggregated_score, the one earlier in the
\* flattened input is earlier in the returned list and has the smaller rank.
C2_TieBreakStable ==
    Returned =>
        \A a, b \in 1..Len(Flat) :
            (a < b /\ FEq(ScoreOf(Flat[a]), ScoreOf(Flat[b]))) =>
                /\ Positions(ranked_sections, Flat[a]) # {}
                /\ Positions(ranked_sections, Flat[b]) # {}
                /\ PosIn(ranked_sections, Flat[a]) < PosIn(ranked_sections, Flat[b])
                /\ Val(SectionAt(all_documents, Flat[a]).rank)
                       < Val(SectionAt(all_documents, Flat[b]).rank)

\* C2 witness: two sections of different documents tie, and a section after
\* them in the input outranks both
C2_Witness ==
    /\ Returned
    /\ Len(Flat) = 3
    /\ Flat[1][1] # Flat[2][1]
    /\ FEq(ScoreOf(Flat[1]), ScoreOf(Flat[2]))
    /\ FLess(ScoreOf(Flat[1]), ScoreOf(Flat[3]))

\* C3: in the returned list the aggregated_score never increases from one
\* position to the next.
C3_ScoreMonotone ==
    Returned =>
        \A i \in 1..(NumRanked - 1) :
            ~FLess(ScoreOf(ranked_sections[i]), ScoreOf(ranked_sections[i + 1]))

\* C3 witness: the input held its three sections in strictly increasing score order
C3_Witness ==
    /\ Returned
    /\ Len(Flat) = 3
    /\ FLess(ScoreOf(Flat[1]), ScoreOf(Flat[2]))
    /\ FLess(ScoreOf(Flat[2]), ScoreOf(Flat[3]))

RECURSIVE SumOver(_, _)
SumOver(f, I) ==
    IF I = {} THEN 0
    ELSE LET i == CHOOSE j \in I : TRUE IN f[i] + SumOver(f, I \ {i})

SimilarityScores(section) ==
    [i \in 1..Len(section.chunks) |-> Val(section.chunks[i].similarity_score)]

\* A set of m chunk positions holding m largest scores
IsTopSet(scores, I, m) ==
    /\ Cardinality(I) = m
    /\ \A i \in I : \A j \in (DOMAIN scores) \ I : scores[i] >= scores[j]

\* C4: a section with count >= 1 chunks gets as aggregated_score the mean of
\* its min(K, count) largest chunk similarity scores.
C4_MeanOfTopK ==
    Returned =>
        \A ref \in {Flat[a] : a \in 1..Len(Flat)} :
            HasChunks(ref) =>
                LET scores == SimilarityScores(SectionAt(all_documents, ref))
                    m == MinOf(top_k_chunks, Len(scores))
                IN  \E I \in SUBSET (DOMAIN scores) :
                        /\ IsTopSet(scores, I, m)
                        /\ FEq(ScoreOf(ref), <<SumOver(scores, I), m>>)

\* C4 witness: a section has more chunks than K, and a chunk left out of the
\* top K that would change the mean
C4_Witness ==
    /\ Returned
    /\ \E ref \in {Flat[a] : a \in 1..Len(Flat)} :
           LET scores == SimilarityScores(SectionAt(all_documents, ref))
           IN  /\ Len(scores) > top_k_chunks
               /\ top_k_chunks = 2
               /\ ~FEq(ScoreOf(ref), <<SumOver(scores, DOMAIN scores), Len(scores)>>)

C7_EmptyBelowContent ==
    Returned =>
        \A a, b \in 1..Len(Flat) :
            (HasChunks(Flat[a]) /\ ~HasChunks(Flat[b])) =>
                Val(SectionAt(all_documents, Flat[a]).rank)
                    < Val(SectionAt(all_documents, Flat[b]).rank)

AllChunkRefs == ChunkRefs(all_documents, Flat)
ChunkAt(cref) == all_documents[cref[1]].sections[cref[2]].chunks[cref[3]]
MismatchAt(i) == DimensionMismatch(ChunkAt(AllChunkRefs[i]).embedding, query_embedding)

\* C8: if the query vector's length differs from the embedding length of any
\* chunk, rank_sections_globally raises: it returns no list, and no section
\* gets an aggregated_score or a rank.
C8_DimensionCheck ==
    (pc # "collect" /\ \E i \in 1..Len(AllChunkRefs) : MismatchAt(i)) =>
        /\ pc = "raised"
        /\ ranked_sections = <<>>
        /\ sub_section_analysis = <<>>
        /\ \A a \in 1..Len(Flat) :
               /\ IsNone(SectionAt(all_documents, Flat[a]).aggregated_score)
               /\ IsNone(SectionAt(all_documents, Flat[a]).rank)

\* C8 witness: the call raised at a chunk that is not the first one, with a
\* section without chunks in the input
C8_Witness ==
    /\ pc = "raised"
    /\ Len(AllChunkRefs) >= 2
    /\ ~MismatchAt(1)
    /\ \E a \in 1..Len(Flat) : ~HasChunks(Flat[a])

\* The section an analysis record names
RecordRef(rec) ==
    CHOOSE ref \in {Flat[a] : a \in 1..Len(Flat)} :
        /\ SectionAt(all_documents, ref).source_doc_name = rec.source_document
        /\ SectionAt(all_documents, ref).title = rec.section_title

\* Chunk c of a section has the maximum score and is the first to have it
IsFirstBest(scores, c) ==
    /\ \A j \in DOMAIN scores : scores[j] <= scores[c]
    /\ \A j \in 1..(c - 1) : scores[j] < scores[c]

\* C9 as stated: the snippet is the text of the first chunk of maximum
\* similarity_score, and the record's snippet score is that chunk's score.
C9_SnippetScoreIsChunkScore ==
    pc = "analysed" =>
        \A k \in 1..Len(sub_section_analysis) :
            LET rec == sub_section_analysis[k]
                section == SectionAt(all_documents, RecordRef(rec))
                scores == SimilarityScores(section)
            IN  \E c \in DOMAIN scores :
                    /\ IsFirstBest(scores, c)
                    /\ rec.refined_text_snippet = section.chunks[c].text
                    /\ rec.snippet_relevance_score = scores[c]

\* C9 amended: the snippet is the text of the first chunk of maximum
\* similarity_score, and the record's snippet score is that chunk's score
\* rounded to 4 decimal places.
C9_SnippetIsFirstBestChunk ==
    pc = "analysed" =>
        \A k \in 1..Len(sub_section_analysis) :
            LET rec == sub_section_analysis[k]
                section == SectionAt(all_documents, RecordRef(rec))
                scores == SimilarityScores(section)
            IN  \E c \in DOMAIN scores :
                    /\ IsFirstBest(scores, c)
                    /\ rec.refined_text_snippet = section.chunks[c].text
                    /\ rec.snippet_relevance_score = Round4(scores[c])

\* C9 witness: a record of a section whose maximum is shared by its second and
\* third chunks, not reached by the first, and is changed by the rounding
C9_Witness ==
    /\ pc = "analysed"
    /\ \E k \in 1..Len(sub_section_analysis) :
           LET rec == sub_section_analysis[k]
               scores == SimilarityScores(SectionAt(all_documents, RecordRef(rec)))
           IN  /\ Len(scores) = 3
               /\ scores[1] < scores[2]
               /\ scores[2] = scores[3]
               /\ rec.refined_text_snippet = 2
               /\ rec.snippet_relevance_score # scores[2]

\* The positions among the first top_n of the ranking whose section has chunks
AnalysedPositions ==
    {i \in 1..MinOf(top_n_sections_for_analysis, NumRanked) :
        HasChunks(ranked_sections[i])}

\* The k-th smallest member of a set of numbers
NthOf(P, k) == CHOOSE i \in P : Cardinality({j \in P : j < i}) = k - 1

\* C10: the records are those of the sections with chunks among the first
\* top_n of the ranking, in ranking order: at most top_n, exactly top_n when
\* the first top_n all have chunks, none when top_n is 0, of strictly ascending
\* rank, and none for a section ranked beyond top_n.
C10_AnalysisBoundAndOrder ==
    pc = "analysed" =>
        LET n == top_n_sections_for_analysis
            recs == sub_section_analysis
        IN  /\ Len(recs) = Cardinality(AnalysedPositions)
            /\ \A k \in 1..Len(recs) :
                   LET section == RankedSection(NthOf(AnalysedPositions, k))
                   IN  /\ recs[k].source_document = section.source_doc_name
                       /\ recs[k].section_title = section.title
                       /\ recs[k].importance_rank = NthOf(AnalysedPositions, k)
            /\ Len(recs) <= n
            /\ (NumRanked >= n /\ \A i \in 1..n : HasChunks(ranked_sections[i]))
                   => Len(recs) = n
            /\ n = 0 => recs = <<>>
            /\ \A k \in 1..(Len(recs) - 1) :
                   recs[k].importance_rank < recs[k + 1].importance_rank
            /\ \A k \in 1..Len(recs) : recs[k].importance_rank <= n

\* C10 witness: a section without chunks inside the top_n was skipped, and a
\* section with chunks ranked just beyond top_n got no record
C10_Witness ==
    /\ pc = "analysed"
    /\ top_n_sections_for_analysis = 2
    /\ NumRanked = 3
    /\ HasChunks(ranked_sections[1])
    /\ ~HasChunks(ranked_sections[2])
    /\ HasChunks(ranked_sections[3])
    /\ Len(sub_section_analysis) = 1

\* ------------------------------------------------------------------
\* The documents of the PDFs whose worker returns, in submission order
RECURSIVE SubmissionOrderDocs(_)
SubmissionOrderDocs(w) ==
    IF w = 0 THEN <<>>
    ELSE SubmissionOrderDocs(w - 1) \o
         (IF pdf_paths[w].ok THEN <<ProcessSinglePdf(w, pdf_paths[w].secs)>> ELSE <<>>)

\* The run in which the workers complete in submission order
InOrderRanking ==
    RankSectionsGloballyResult(SubmissionOrderDocs(Len(pdf_paths)), query_embedding,
                               top_k_chunks)

\* A ranked list as the sections it names, each with the rank it carries
RankedIdentities(docs, ranked) ==
    [i \in 1..Len(ranked) |->
        <<SectionAt(docs, ranked[i]).source_doc_name, SectionAt(docs, ranked[i]).title,
          SectionAt(docs, ranked[i]).rank>>]

\* C11: whatever the order in which the workers complete, the ranked order of
\* the sections, their ranks and the analysis records are those of the run in
\* which the workers complete in submission order.
C11_CompletionOrderIrrelevant ==
    /\ Returned =>
           RankedIdentities(all_documents, ranked_sections)
               = RankedIdentities(InOrderRanking.docs, InOrderRanking.sorted_sections)
    /\ pc = "analysed" =>
           sub_section_analysis
               = PerformSubSectionAnalysisResult(InOrderRanking.docs,
                     InOrderRanking.sorted_sections, top_n_sections_for_analysis)

\* The documents of all_documents as process_single_pdf built them
FreshDocuments ==
    [d \in 1..Len(all_documents) |->
        ProcessSinglePdf(all_documents[d].filename,
                         pdf_paths[all_documents[d].filename].secs)]

C13_EmptyInputNotAnError ==
    Len(Flat) = 0 =>
        /\ pc # "raised"
        /\ ranked_sections = <<>>
        /\ sub_section_analysis = <<>>
        /\ (pc = "collect" /\ pending = {}) => ENABLED RankSectionsGlobally
        /\ pc = "ranked" => ENABLED PerformSubSectionAnalysis

\* C13 witness: every worker raised, and the ranking and the analysis of the
\* empty document list have returned
C13_Witness ==
    /\ pc = "analysed"
    /\ all_documents = <<>>
    /\ rank_calls = 1

\* The documents without the fields the ranking writes
Strip(docs) ==
    [d \in 1..Len(docs) |->
        [docs[d] EXCEPT !.sections =
            [x \in 1..Len(docs[d].sections) |->
                [docs[d].sections[x] EXCEPT
                    !.aggregated_score = None,
                    !.rank = None,
                    !.chunks = [c \in 1..Len(docs[d].sections[x].chunks) |->
                                   [docs[d].sections[x].chunks[c] EXCEPT
                                       !.similarity_score = None]]]]]]

\* C14: a call of rank_sections_globally changes nothing of the documents but
\* similarity_score, aggregated_score and rank, and a call of
\* perform_sub_section_analysis changes nothing of them and nothing of the
\* ranked list.
C14_Frame ==
    [][/\ rank_calls' # rank_calls => Strip(all_documents') = Strip(all_documents)
       /\ (pc = "ranked" /\ pc' = "analysed") =>
              /\ all_documents' = all_documents
              /\ ranked_sections' = ranked_sections]_vars

\* C14 witness: the analysis has made a record of a section whose chunks are
\* not in descending score order
C14_Witness ==
    /\ pc = "analysed"
    /\ \E k \in 1..Len(sub_section_analysis) :
           LET scores == SimilarityScores(
                             SectionAt(all_documents, RecordRef(sub_section_analysis[k])))
           IN  /\ Len(scores) >= 2
               /\ scores[1] < scores[2]

\* C15: rank_sections_globally is called once, after every worker has
\* finished, on the list of exactly the documents whose workers returned, each
\* once; a worker that raised takes only its own document out of the list and
\* does not stop the run.
C15_JoinBeforeRanking ==
    /\ [](/\ rank_calls = (IF pc = "collect" THEN 0 ELSE 1)
          /\ pc # "collect" =>
                 /\ pending = {}
                 /\ {all_documents[d].filename : d \in 1..Len(all_documents)}
                        = {w \in 1..Len(pdf_paths) : pdf_paths[w].ok}
                 /\ \A d, e \in 1..Len(all_documents) :
                        all_documents[d].filename = all_documents[e].filename => d = e)
    /\ [][/\ rank_calls' # rank_calls => (pending = {} /\ rank_calls = 0)
          /\ pending' # pending =>
                 /\ pc' = "collect"
                 /\ \E w \in pending :
                        /\ pending' = pending \ {w}
                        /\ all_documents' =
                               (IF pdf_paths[w].ok
                                THEN Append(all_documents,
                                            ProcessSinglePdf(w, pdf_paths[w].secs))
                                ELSE all_documents)]_vars

\* C15 witness: the ranking has returned in a run in which the worker of the
\* first PDF raised and the worker of the second returned a document with sections
C15_Witness ==
    /\ pc = "ranked"
    /\ Len(pdf_paths) = 2
    /\ ~pdf_paths[1].ok
    /\ pdf_paths[2].ok
    /\ Len(all_documents) = 1
    /\ Len(Flat) >= 1

ChunkIn(docs, cref) == docs[cref[1]].sections[cref[2]].chunks[cref[3]]

\* C16: when rank_sections_globally raises at a chunk, the chunks before it in
\* traversal order carry the similarity_score of this call, that chunk and the
\* later ones keep the similarity_score they had, and every section keeps its
\* aggregated_score and rank.
C16_StateAfterFailedScoring ==
    [][(pc' \in {"raised", "reraised"} /\ pc' # pc) =>
          LET crefs == AllChunkRefs
              q == query_embedding'
              bad == {i \in 1..Len(crefs) :
                         DimensionMismatch(ChunkIn(all_documents, crefs[i]).embedding, q)}
              first == CHOOSE i \in bad : \A j \in bad : i <= j
          IN  /\ bad # {}
              /\ \A i \in 1..Len(crefs) :
                     IF i < first
                     THEN ChunkIn(all_documents', crefs[i]).similarity_score
                              = Some(Dot(ChunkIn(all_documents, crefs[i]).embedding, q))
                     ELSE ChunkIn(all_documents', crefs[i]).similarity_score
                              = ChunkIn(all_documents, crefs[i]).similarity_score
              /\ \A a \in 1..Len(Flat) :
                     /\ SectionAt(all_documents', Flat[a]).aggregated_score
                            = SectionAt(all_documents, Flat[a]).aggregated_score
                     /\ SectionAt(all_documents', Flat[a]).rank
                            = SectionAt(all_documents, Flat[a]).rank]_vars

\* C16 witness: the first call raised at the third chunk, after it had scored
\* the first two
C16_Witness ==
    /\ pc = "raised"
    /\ Len(AllChunkRefs) = 3
    /\ MismatchAt(3)
    /\ ~IsNone(ChunkAt(AllChunkRefs[1]).similarity_score)
    /\ ~IsNone(ChunkAt(AllChunkRefs[2]).similarity_score)
    /\ IsNone(ChunkAt(AllChunkRefs[3]).similarity_score)

\* C17: for every analysis record the index importance_rank - 1 is within the
\* ranked list and the section there is the section of the record, so build
\* does not raise and writes that section's page number for the record.
C17_RankLookup ==
    pc \in {"analysed", "built", "build_raised"} =>
        /\ pc # "build_raised"
        /\ \A k \in 1..Len(sub_section_analysis) :
               LET rec == sub_section_analysis[k]
                   i == rec.importance_rank - 1
               IN  /\ i \in 0..(NumRanked - 1)
                   /\ ranked_sections[i + 1] = RecordRef(rec)
                   /\ pc = "built" =>
                          Val(final_output).sub_section_analysis[k].page_number
                              = SectionAt(all_documents, RecordRef(rec)).page_number

\* C17 witness: build has returned on two records of sections of two
\* documents, ranked in another order than the input order
C17_Witness ==
    /\ pc = "built"
    /\ Len(sub_section_analysis) = 2
    /\ sub_section_analysis[1].source_document # sub_section_analysis[2].source_document
    /\ ranked_sections # Flat

====
